---- MODULE Spec2Model ----
(***************************************************************************)
(* A model of acropolis/models.py: the abstract scenario                   *)
(* (AbstractModel), its two concrete classes (DecayModel,                  *)
(* AnnihilationModel), the orchestration run_disintegration with its       *)
(* propagator buffer, and the source terms.                                *)
(*                                                                         *)
(* Numbers.  Python floats are modelled as follows:                        *)
(*   - energies, branching ratios, abundances: <<n, d, e>>, the value      *)
(*     (n/d) * 2^e, with the one rounding of doubles that loses a term of  *)
(*     a sum (see RAdd);                                                   *)
(*   - temperatures: [m |-> rational, q |-> integer], the value            *)
(*     m * 10^(q/4), so that log10(T) -+ k/4 is exact;                     *)
(*   - source rates: a rational coefficient times symbolic factors (pi,  *)
(*     hbar, c_si, rho_d0, e^r, log(r)), see ZeroVal.                      *)
(* No other rounding, and no overflow or underflow, is modelled.           *)
(***************************************************************************)
EXTENDS Integers, Sequences, FiniteSets, TLC

VARIABLES
    phase,        \* "none" before the constructor call, "live" once an instance exists, "raised" if the call raised
    ctorExc,      \* the exception the constructor call raised, or "none"
    cls,          \* the class the constructor call named
    args,         \* the arguments of the constructor call
    sII,          \* self._sII: the input interface (here: its answers)
    sE0,          \* self._sE0
    sTrg,         \* self._sTrg = (Tmin, Tmax)
    sS0,          \* self._sS0: the 'delta' source table (method names bound to self)
    sSc,          \* self._sSc: the continuum source table
    sMatpBuffer,  \* self._sMatpBuffer
    attrs,        \* the subclass attributes (_sMphi, _sTau, ... / _sMchi, ...)
    last,         \* observer: the last call on the instance and what it did
    pendingSet,   \* observer: the argument of a set_matp_buffer call no run_disintegration has followed yet
    hist,         \* observer: solver invocations and outputs since the last set_matp_buffer
    srcOut        \* observer: the last evaluation of the source tables

vars == <<phase, ctorExc, cls, args, sII, sE0, sTrg, sS0, sSc, sMatpBuffer,
          attrs, last, pendingSet, hist, srcOut>>

\* Python's None where a matrix may stand: <<>>, and <<m>> for the matrix m
None == <<>>
Some(m) == <<m>>

(***************************************************************************)
(* Bounds of the model.                                                    *)
(***************************************************************************)
\* solver invocations between two set_matp_buffer calls
MaxSolverCalls == 2
\* largest entry of a propagator exponent
MaxEntry == 1
\* tracked isotopes in the model (params.py sets NY = 9)
NumY == 2

(***************************************************************************)
(* Float arithmetic.  A float is <<n, d, e>>, the value (n/d) * 2^e with   *)
(* n and d odd and coprime, d > 0 (zero is <<0, 1, 0>>).  Products,        *)
(* quotients and comparisons are exact.  A sum rounds as an IEEE double    *)
(* does when one term is lost in the other: if |b| <= |a| * 2^-54 then     *)
(* a + b is a (round to nearest, ties to even); any other sum is exact.    *)
(***************************************************************************)
Abs(n) == IF n < 0 THEN -n ELSE n

RECURSIVE Gcd(_, _)
Gcd(a, b) == IF b = 0 THEN a ELSE Gcd(b, a % b)

Sgn(n) == IF n > 0 THEN 1 ELSE IF n < 0 THEN -1 ELSE 0

Min(a, b) == IF a < b THEN a ELSE b

RECURSIVE Pow2(_)
Pow2(k) == IF k = 0 THEN 1 ELSE 2 * Pow2(k - 1)

\* the number of factors 2 of n > 0
RECURSIVE Twos(_)
Twos(n) == IF n % 2 = 0 THEN 1 + Twos(n \div 2) ELSE 0

\* (n/d) * 2^e, d # 0, in its one representation
Flt(n, d, e) ==
    IF n = 0 THEN <<0, 1, 0>>
    ELSE LET tn == Twos(Abs(n))
             td == Twos(Abs(d))
             n1 == Abs(n) \div Pow2(tn)
             d1 == Abs(d) \div Pow2(td)
             g  == Gcd(n1, d1)
         IN  <<Sgn(n) * Sgn(d) * (n1 \div g), d1 \div g, e + tn - td>>

\* the float n/d
Rat(n, d) == Flt(n, d, 0)

RInt(n) == Rat(n, 1)
RZero == <<0, 1, 0>>
ROne == <<1, 1, 0>>

Lcm(a, b) == (a \div Gcd(a, b)) * b

\* |a| <= |b|
MagLeq(a, b) ==
    IF a[1] = 0 THEN TRUE
    ELSE IF b[1] = 0 THEN FALSE
    ELSE LET g == Gcd(a[2], b[2])
             l == Abs(a[1]) * (b[2] \div g)
             r == Abs(b[1]) * (a[2] \div g)
             k == a[3] - b[3]
         IN  IF k >= 31 THEN FALSE
             ELSE IF k >= 0 THEN l <= r \div Pow2(k)
             ELSE IF k <= -31 THEN TRUE
             ELSE \/ l \div Pow2(-k) < r
                  \/ l \div Pow2(-k) = r /\ l % Pow2(-k) = 0

\* b is lost in a + b: |b| <= |a| * 2^-54
Absorbed(a, b) == a[1] # 0 /\ b[1] # 0 /\ MagLeq(<<b[1], b[2], b[3] + 54>>, a)

RAdd(a, b) ==
    IF a[1] = 0 THEN b
    ELSE IF b[1] = 0 THEN a
    ELSE IF Absorbed(a, b) THEN a
    ELSE IF Absorbed(b, a) THEN b
    ELSE LET l == Lcm(a[2], b[2])
             e == Min(a[3], b[3])
         IN  Flt(a[1] * (l \div a[2]) * Pow2(a[3] - e) + b[1] * (l \div b[2]) * Pow2(b[3] - e),
                 l, e)

RNeg(a) == <<-a[1], a[2], a[3]>>
RSub(a, b) == RAdd(a, RNeg(b))

\* a * b, cancelling across before multiplying
RMul(a, b) ==
    IF a[1] = 0 \/ b[1] = 0 THEN RZero
    ELSE LET g1 == Gcd(Abs(a[1]), b[2])
             g2 == Gcd(Abs(b[1]), a[2])
         IN  <<(a[1] \div g1) * (b[1] \div g2), (a[2] \div g2) * (b[2] \div g1), a[3] + b[3]>>

\* 1/a, a # 0
RInv(a) == IF a[1] > 0 THEN <<a[2], a[1], -a[3]>> ELSE <<-a[2], -a[1], -a[3]>>
\* a / b, b # 0
RDiv(a, b) == RMul(a, RInv(b))

RSgn(a) == Sgn(a[1])

RLess(a, b) ==
    IF RSgn(a) # RSgn(b) THEN RSgn(a) < RSgn(b)
    ELSE IF RSgn(a) = 0 THEN FALSE
    ELSE IF RSgn(a) > 0 THEN ~MagLeq(b, a)
    ELSE ~MagLeq(a, b)
RLeq(a, b) == ~RLess(b, a)

(***************************************************************************)
(* params.py                                                               *)
(***************************************************************************)
\* alpha = 1./137.036
alpha == Rat(1000, 137036)
\* me = 0.511
me == Rat(511, 1000)
\* me2 = me**2.
me2 == RMul(me, me)
\* Emin = 1.5
Emin == Rat(3, 2)

(***************************************************************************)
(* Float values that carry symbolic factors: the value                     *)
(*   c * pi^pw.pi * hbar^pw.hbar * c_si^pw.c_si * rho_d0^pw.rho * e^ex     *)
(*     * (1 + (1-fx)^2)/fx   (when fx # NoFactor)                          *)
(*     * log(lg)             (when lg # NoFactor)                          *)
(* with c, ex, fx, lg rationals.  Zero has one representation.             *)
(***************************************************************************)
NoFactor == <<0, 0, 0>>
NoPw == [pi |-> 0, hbar |-> 0, c_si |-> 0, rho |-> 0]

ZeroVal == [c |-> RZero, pw |-> NoPw, ex |-> RZero, fx |-> NoFactor, lg |-> NoFactor]

Norm(v) == IF v.c = RZero \/ v.lg = ROne THEN ZeroVal ELSE v

Num(r) == Norm([c |-> r, pw |-> NoPw, ex |-> RZero, fx |-> NoFactor, lg |-> NoFactor])

Sym(pi, hb, cs, rho) ==
    [c |-> ROne, pw |-> [pi |-> pi, hbar |-> hb, c_si |-> cs, rho |-> rho],
     ex |-> RZero, fx |-> NoFactor, lg |-> NoFactor]

\* e^r
Exp(r) == [c |-> ROne, pw |-> NoPw, ex |-> r, fx |-> NoFactor, lg |-> NoFactor]

\* products of values without fx / lg factors
VMul(a, b) ==
    Norm([c  |-> RMul(a.c, b.c),
          pw |-> [pi   |-> a.pw.pi + b.pw.pi,     hbar |-> a.pw.hbar + b.pw.hbar,
                  c_si |-> a.pw.c_si + b.pw.c_si, rho  |-> a.pw.rho + b.pw.rho],
          ex |-> RAdd(a.ex, b.ex), fx |-> NoFactor, lg |-> NoFactor])

VScale(r, a) == Norm([a EXCEPT !.c = RMul(r, a.c)])

\* a + b for values with the same symbolic factors (or a zero)
VAdd(a, b) ==
    IF a = ZeroVal THEN b
    ELSE IF b = ZeroVal THEN a
    ELSE Norm([a EXCEPT !.c = RAdd(a.c, b.c)])

\* the sign of log(r), r > 0
LogSgn(r) == IF RLess(ROne, r) THEN 1 ELSE IF r = ROne THEN 0 ELSE -1

\* the sign of a value (fx # 0, lg > 0)
VSgn(v) ==
    RSgn(v.c) * (IF v.fx = NoFactor THEN 1 ELSE RSgn(v.fx))
              * (IF v.lg = NoFactor THEN 1 ELSE LogSgn(v.lg))

(***************************************************************************)
(* What a call does: it returns a value or raises.                         *)
(***************************************************************************)
Ret(v) == [tag |-> "ret", val |-> v]
Raise(e) == [tag |-> "raise", exc |-> e]

(***************************************************************************)
(* Temperatures of the temperature range: m * 10^(q/4).                    *)
(***************************************************************************)
Temp(m, q) == [m |-> m, q |-> q]

\* math.log10: the logarithm, in quarter decades above log10(m)
Log10(T) == IF RSgn(T.m) <= 0 THEN Raise("ValueError") ELSE Ret([lm |-> T.m, lq |-> T.q])

\* l + k/4
LogPlusQuarters(l, k) == [l EXCEPT !.lq = l.lq + k]

\* 10.**l
Pow10(l) == Temp(l.lm, l.lq)

TPositive(T) == RSgn(T.m) > 0

\* a < b for two positive temperatures with the same mantissa,
\* or whose exponents differ by whole decades that fold into the mantissa
TLess(a, b) ==
    IF a.m = b.m THEN a.q < b.q
    ELSE IF a.q = b.q THEN RLess(a.m, b.m)
    ELSE FALSE

(***************************************************************************)
(* Matrices: the propagator exponent is NumY x NumY, the abundances are    *)
(* NumY x 2 (a central column and one variant).                            *)
(***************************************************************************)
Rows == 1..NumY
Cols == 1..2

\* sum of f[i] over i in 1..n
RECURSIVE SumTo(_, _)
SumTo(f, n) == IF n = 0 THEN 0 ELSE f[n] + SumTo(f, n - 1)

Identity == [i \in Rows |-> [j \in Rows |-> IF i = j THEN 1 ELSE 0]]
ZeroMat == [i \in Rows |-> [j \in Rows |-> 0]]

MatMul(a, b) ==
    [i \in Rows |-> [j \in Rows |-> SumTo([k \in Rows |-> a[i][k] * b[k][j]], NumY)]]
MatAdd(a, b) == [i \in Rows |-> [j \in Rows |-> a[i][j] + b[i][j]]]
MatDiv(a, k) == [i \in Rows |-> [j \in Rows |-> a[i][j] \div k]]

\* scipy.linalg.expm, by its Taylor series sum_k m^k / k!; the series is
\* cut where the power vanishes, which it does for the nilpotent
\* exponents of Matrices
RECURSIVE ExpmFrom(_, _, _)
ExpmFrom(m, term, k) ==
    IF term = ZeroMat \/ k > NumY THEN ZeroMat
    ELSE MatAdd(term, ExpmFrom(m, MatDiv(MatMul(term, m), k), k + 1))

expm(m) == ExpmFrom(m, Identity, 1)

\* fmat.dot(Y0i) for every column Y0i, column-stacked
ApplyToColumns(fmat, Y0) ==
    [i \in Rows |-> [c \in Cols |-> SumTo([j \in Rows |-> fmat[i][j] * Y0[j][c]], NumY)]]

\* the propagator exponents of the model: one coupling, from isotope 2 to isotope 1
Matp(a) == [i \in Rows |-> [j \in Rows |-> IF i = 1 /\ j = 2 THEN a ELSE 0]]
Matrices == {Matp(a) : a \in (-MaxEntry)..MaxEntry}

(***************************************************************************)
(* The input interface (acropolis/input.py) answers from its data file.    *)
(* An interface is the record of its answers:                              *)
(*   Y0            bbn_abundances()                                        *)
(*   temperature   temperature(t), for every lifetime asked                *)
(*   time          time(T),         for every temperature asked            *)
(*   scale_factor  scale_factor(T), for every temperature asked            *)
(***************************************************************************)
\* T0 = 2.72548*8.6173324e-11, the CMB temperature today; it is only ever
\* handed to scale_factor, and stands for itself
T0cmb == <<272548, 86173324, -23, 0>>

TauSet == {RInt(1), RInt(2)}
Temp0Set == {RInt(10)}
TkdSet == {RZero, RInt(2)}
TSet == {RInt(1), RInt(2)}
TDom == TSet \cup Temp0Set \cup (TkdSet \ {RZero}) \cup {T0cmb}

Y0Set == {[i \in Rows |-> [c \in Cols |-> i + c]],
          [i \in Rows |-> [c \in Cols |-> 3 * i - c + 1]]}

TemperatureTables ==
    {[t \in TauSet |-> Temp(RDiv(RInt(3), t), -6)],
     [t \in TauSet |-> Temp(RZero, 0)]}

\* the answers of a background with a ~ 1/T and t ~ 1/T^2, a = 1 today
ScaleFactorTable == [T \in TDom |-> IF T = T0cmb THEN ROne ELSE RInv(T)]
TimeTable == [T \in TDom |-> IF T = T0cmb THEN RInt(1000000) ELSE RInv(RMul(T, T))]

Interfaces ==
    {[Y0 |-> y, temperature |-> tt, time |-> TimeTable, scale_factor |-> ScaleFactorTable] :
        y \in Y0Set, tt \in TemperatureTables}

(***************************************************************************)
(* The classes: which methods each class body defines, and which of        *)
(* AbstractModel's are decorated @abstractmethod.                          *)
(***************************************************************************)
Classes == {"DecayModel", "AnnihilationModel"}

AbstractMethods ==
    {"_temperature_range", "_source_photon_0", "_source_electron_0",
     "_source_photon_c", "_source_electron_c"}

AbstractModelDefines ==
    {"__init__", "run_disintegration", "set_matp_buffer", "get_matp_buffer",
     "_source_positron_0", "_source_positron_c"} \cup AbstractMethods

DecayModelDefines ==
    {"__init__", "_number_density", "_temperature_range", "_source_photon_0",
     "_source_electron_0", "_source_photon_c", "_source_electron_c"}

AnnihilationModelDefines ==
    {"__init__", "_number_density", "_dm_temperature", "_sigma_v",
     "_temperature_range", "_source_photon_z", "_source_electron_0",
     "_source_photon_c", "_source_electron_c"}

ClassDefines(c) ==
    IF c = "DecayModel" THEN DecayModelDefines
    ELSE IF c = "AnnihilationModel" THEN AnnihilationModelDefines
    ELSE AbstractModelDefines

\* attribute lookup along the method resolution order (c, AbstractModel)
Lookup(c, name) == IF name \in ClassDefines(c) THEN c ELSE "AbstractModel"

\* c.__abstractmethods__: the abstract methods c does not override
StillAbstract(c) == {n \in AbstractMethods : Lookup(c, n) = "AbstractModel"}

\* the value of a method body that is `pass`
NoneVal == [c |-> NoFactor, pw |-> NoPw, ex |-> RZero, fx |-> NoFactor, lg |-> NoFactor]

hbar == Sym(0, 1, 0, 0)
pi2 == Sym(2, 0, 0, 0)
rho_d0 == VScale(Rat(12, 100), Sym(0, 0, 0, 1))

RCube(r) == RMul(r, RMul(r, r))

(***************************************************************************)
(* DecayModel                                                              *)
(***************************************************************************)
DecayMag == 2

DecayNumberDensity(self, T) ==
    LET sf_ratio == RDiv(self.sII.scale_factor[self.a.sT0], self.sII.scale_factor[T])
        delta_t  == RSub(self.sII.time[T], self.a.st0)
        n_gamma  == VScale(RDiv(RCube(self.a.sT0), RInt(15)), pi2)
    IN  VMul(VScale(RMul(self.a.sN0a, RCube(sf_ratio)), n_gamma),
             Exp(RDiv(RNeg(delta_t), self.a.sTau)))

\* a faulty variant: the two offsets exchanged
DecayTemperatureRange_swapped(self) ==
    LET Td     == self.sII.temperature[self.a.sTau]
        Td_ofm == Log10(Td)
    IN  IF Td_ofm.tag = "raise" THEN Td_ofm
        ELSE Ret(<<Pow10(LogPlusQuarters(Td_ofm.val, 3 * DecayMag)),
                   Pow10(LogPlusQuarters(Td_ofm.val, -(1 * DecayMag)))>>)

DecayTemperatureRange(self) ==
    LET Td     == self.sII.temperature[self.a.sTau]
        Td_ofm == Log10(Td)
    IN  IF Td_ofm.tag = "raise" THEN Td_ofm
        ELSE Ret(<<Pow10(LogPlusQuarters(Td_ofm.val, -(3 * DecayMag))),
                   Pow10(LogPlusQuarters(Td_ofm.val, 1 * DecayMag))>>)

DecaySourcePhoton0(self, T) ==
    Ret(VMul(VScale(RMul(self.a.sBRaa, RInt(2)), DecayNumberDensity(self, T)),
             VScale(RInv(self.a.sTau), hbar)))

DecaySourceElectron0(self, T) ==
    Ret(VMul(VScale(self.a.sBRee, DecayNumberDensity(self, T)),
             VScale(RInv(self.a.sTau), hbar)))

DecaySourceElectronC(self, E, T) == Ret(ZeroVal)

(***************************************************************************)
(* AnnihilationModel                                                       *)
(***************************************************************************)
AnnihilationMag == 4

AnnihilationNumberDensity(self, T) ==
    LET sf_ratio == RDiv(self.sII.scale_factor[T0cmb], self.sII.scale_factor[T])
    IN  IF self.a.sMchi = RZero THEN Raise("ZeroDivisionError")
        ELSE Ret(VScale(RDiv(RCube(sf_ratio), self.a.sMchi), rho_d0))

AnnihilationDmTemperature(self, T) ==
    IF RLeq(self.a.sTkd, T) THEN T
    ELSE LET sf_ratio == RDiv(self.sII.scale_factor[self.a.sTkd], self.sII.scale_factor[T])
         IN  RMul(self.a.sTkd, RMul(sf_ratio, sf_ratio))

AnnihilationSigmaV(self, T) ==
    LET swave_nu == VScale(self.a.sSwave, Sym(0, -2, -3, 0))
        pwave_nu == VScale(self.a.sPwave, Sym(0, -2, -3, 0))
    IN  IF self.a.sMchi = RZero THEN Raise("ZeroDivisionError")
        ELSE LET v2 == RDiv(RMul(RInt(6), AnnihilationDmTemperature(self, T)), self.a.sMchi)
             IN  Ret(VAdd(swave_nu, VScale(v2, pwave_nu)))

AnnihilationTemperatureRange(self) ==
    LET Tmax == Temp(RDiv(me2, RMul(RMul(RInt(22), Rat(1, 2)), Emin)), 0)
        l    == Log10(Tmax)
    IN  IF l.tag = "raise" THEN l
        ELSE Ret(<<Pow10(LogPlusQuarters(l.val, -(4 * AnnihilationMag))), Tmax>>)

AnnihilationSourcePhotonZ(self, T) ==
    LET n  == AnnihilationNumberDensity(self, T)
        sv == AnnihilationSigmaV(self, T)
    IN  IF n.tag = "raise" THEN n
        ELSE IF sv.tag = "raise" THEN sv
        ELSE Ret(VScale(self.a.sBRaa, VMul(VMul(n.val, n.val), sv.val)))

AnnihilationSourceElectron0(self, T) ==
    LET n  == AnnihilationNumberDensity(self, T)
        sv == AnnihilationSigmaV(self, T)
    IN  IF n.tag = "raise" THEN n
        ELSE IF sv.tag = "raise" THEN sv
        ELSE Ret(VScale(RMul(self.a.sBRee, Rat(1, 2)), VMul(VMul(n.val, n.val), sv.val)))

AnnihilationSourceElectronC(self, E, T) == Ret(ZeroVal)

(***************************************************************************)
(* Method calls on self: the class of self decides the body that runs.     *)
(***************************************************************************)
\* self._source_electron_0(T)
CallElectron0(self, T) ==
    LET owner == Lookup(self.cls, "_source_electron_0")
    IN  IF owner = "DecayModel" THEN DecaySourceElectron0(self, T)
        ELSE IF owner = "AnnihilationModel" THEN AnnihilationSourceElectron0(self, T)
        ELSE Ret(NoneVal)

\* self._source_photon_0(T)
CallPhoton0(self, T) ==
    LET owner == Lookup(self.cls, "_source_photon_0")
    IN  IF owner = "DecayModel" THEN DecaySourcePhoton0(self, T)
        ELSE Ret(NoneVal)

\* self._source_electron_c(E, T)
CallElectronC(self, E, T) ==
    LET owner == Lookup(self.cls, "_source_electron_c")
    IN  IF owner = "DecayModel" THEN DecaySourceElectronC(self, E, T)
        ELSE IF owner = "AnnihilationModel" THEN AnnihilationSourceElectronC(self, E, T)
        ELSE Ret(ZeroVal)

\* (_sp/EX) * (alpha/pi) * ( 1. + (1.-x)**2. )/x * log( (1.-x)/y )
SplittingSpectrum(sp, EX, x, y) ==
    IF x = RZero THEN Raise("ZeroDivisionError")
    ELSE IF RSgn(RDiv(RSub(ROne, x), y)) <= 0 THEN Raise("ValueError")
    ELSE Ret(Norm([VMul(VScale(RInv(EX), sp), VScale(alpha, Sym(-1, 0, 0, 0)))
                      EXCEPT !.fx = x, !.lg = RDiv(RSub(ROne, x), y)]))

DecaySourcePhotonC(self, E, T) ==
    LET EX == self.sE0
    IN  IF EX = RZero THEN Raise("ZeroDivisionError")
        ELSE LET x == RDiv(E, EX)
                 y == RDiv(me2, RMul(RInt(4), RMul(EX, EX)))
             IN  IF RLess(RSub(ROne, y), x) THEN Ret(ZeroVal)
                 ELSE LET sp == CallElectron0(self, T)
                      IN  IF sp.tag = "raise" THEN sp
                          ELSE SplittingSpectrum(sp.val, EX, x, y)

AnnihilationSourcePhotonC(self, E, T) ==
    LET EX == self.sE0
    IN  IF EX = RZero THEN Raise("ZeroDivisionError")
        ELSE LET x == RDiv(E, EX)
                 y == RDiv(me2, RMul(RInt(4), RMul(EX, EX)))
             IN  IF RLess(RSub(ROne, y), x) THEN Ret(ZeroVal)
                 ELSE LET sp == CallElectron0(self, T)
                      IN  IF sp.tag = "raise" THEN sp
                          ELSE SplittingSpectrum(sp.val, EX, x, y)

\* self._source_photon_c(E, T)
CallPhotonC(self, E, T) ==
    LET owner == Lookup(self.cls, "_source_photon_c")
    IN  IF owner = "DecayModel" THEN DecaySourcePhotonC(self, E, T)
        ELSE IF owner = "AnnihilationModel" THEN AnnihilationSourcePhotonC(self, E, T)
        ELSE Ret(NoneVal)

\* a faulty variant: the positron mirrors the photon term
AbstractSourcePositron0_photon(self, T) == CallPhoton0(self, T)

\* AbstractModel._source_positron_0
AbstractSourcePositron0(self, T) == CallElectron0(self, T)

\* AbstractModel._source_positron_c
AbstractSourcePositronC(self, E, T) == CallElectronC(self, E, T)

\* calling an entry of self._sS0
CallS0(self, name, T) ==
    IF name = "_source_photon_0" THEN CallPhoton0(self, T)
    ELSE IF name = "_source_electron_0" THEN CallElectron0(self, T)
    ELSE IF Lookup(self.cls, name) = "AbstractModel" THEN AbstractSourcePositron0(self, T)
    ELSE Raise("AttributeError")

\* calling an entry of self._sSc
CallSc(self, name, E, T) ==
    IF name = "_source_photon_c" THEN CallPhotonC(self, E, T)
    ELSE IF name = "_source_electron_c" THEN CallElectronC(self, E, T)
    ELSE IF Lookup(self.cls, name) = "AbstractModel" THEN AbstractSourcePositronC(self, E, T)
    ELSE Raise("AttributeError")

\* self._temperature_range()
CallTemperatureRange(self) ==
    LET owner == Lookup(self.cls, "_temperature_range")
    IN  IF owner = "DecayModel" THEN DecayTemperatureRange(self)
        ELSE IF owner = "AnnihilationModel" THEN AnnihilationTemperatureRange(self)
        ELSE Ret(<<>>)

(***************************************************************************)
(* Construction.  An object is the record of its attributes; exc is the    *)
(* exception __init__ raised, or "none".                                   *)
(***************************************************************************)
S0Table == <<"_source_photon_0", "_source_electron_0", "_source_positron_0">>
ScTable == <<"_source_photon_c", "_source_electron_c", "_source_positron_c">>

\* AbstractModel.__init__(self, e0, ii), self already carrying the subclass attributes
AbstractInit(c, a, e0, ii) ==
    LET self == [cls |-> c, sII |-> ii, sE0 |-> e0, a |-> a]
        trg  == CallTemperatureRange(self)
    IN  IF trg.tag = "raise"
        THEN [exc |-> trg.exc, self |-> self, sTrg |-> <<>>, sS0 |-> <<>>, sSc |-> <<>>,
              sMatpBuffer |-> None]
        ELSE [exc |-> "none", self |-> self, sTrg |-> trg.val, sS0 |-> S0Table,
              sSc |-> ScTable, sMatpBuffer |-> None]

\* DecayModel.__init__(self, mphi, tau, temp0, n0a, bree, braa)
DecayInit(g, ii) ==
    AbstractInit("DecayModel",
                 [sMphi |-> g.mphi, sTau |-> g.tau, sN0a |-> g.n0a, sT0 |-> g.temp0,
                  st0 |-> ii.time[g.temp0], sBRee |-> g.bree, sBRaa |-> g.braa],
                 RDiv(g.mphi, RInt(2)), ii)

\* AnnihilationModel.__init__(self, mchi, a, b, tempkd, bree, braa)
AnnihilationInit(g, ii) ==
    AbstractInit("AnnihilationModel",
                 [sMchi |-> g.mchi, sSwave |-> g.a, sPwave |-> g.b, sTkd |-> g.tempkd,
                  sBRee |-> g.bree, sBRaa |-> g.braa],
                 g.mchi, ii)

\* the call c(...): object creation refuses a class with abstract methods left
New(c, g, ii) ==
    IF StillAbstract(c) # {}
    THEN [exc |-> "TypeError", self |-> [cls |-> c, sII |-> ii, sE0 |-> RZero, a |-> <<>>],
          sTrg |-> <<>>, sS0 |-> <<>>, sSc |-> <<>>, sMatpBuffer |-> None]
    ELSE IF c = "DecayModel" THEN DecayInit(g, ii)
    ELSE AnnihilationInit(g, ii)

(***************************************************************************)
(* run_disintegration.  o is what the solver pipeline (acropolis/nucl.py)  *)
(* does if it is invoked: o.fail names the stage that raises o.exc, or is  *)
(* "none" and get_final_matp returns o.matp.                               *)
(* The result: what the call returns or raises, the buffer afterwards,     *)
(* the number of solver invocations, and the argument handed to expm.      *)
(***************************************************************************)
SolverOutcomes ==
    {[fail |-> "none", exc |-> "none", matp |-> m] : m \in Matrices}
    \cup {[fail |-> f, exc |-> "SolverFailure", matp |-> ZeroMat] :
            f \in {"get_thermal_rates", "get_final_matp"}}

\* a faulty variant: the threshold compared with < instead of <=
run_disintegration_strict(e0, ii, buffer, o) ==
    IF RLess(e0, Emin)
    THEN [result |-> Ret(ii.Y0), buffer |-> buffer, solver |-> 0, expm |-> None]
    ELSE IF buffer # None
    THEN [result |-> Ret(ApplyToColumns(expm(buffer[1]), ii.Y0)), buffer |-> buffer,
          solver |-> 0, expm |-> Some(buffer[1])]
    ELSE IF o.fail # "none"
    THEN [result |-> Raise(o.exc), buffer |-> buffer, solver |-> 1, expm |-> None]
    ELSE [result |-> Ret(ApplyToColumns(expm(o.matp), ii.Y0)), buffer |-> Some(o.matp),
          solver |-> 1, expm |-> Some(o.matp)]

\* a faulty variant: the solver's result is not buffered
run_disintegration_unbuffered(e0, ii, buffer, o) ==
    IF RLeq(e0, Emin)
    THEN [result |-> Ret(ii.Y0), buffer |-> buffer, solver |-> 0, expm |-> None]
    ELSE IF buffer # None
    THEN [result |-> Ret(ApplyToColumns(expm(buffer[1]), ii.Y0)), buffer |-> buffer,
          solver |-> 0, expm |-> Some(buffer[1])]
    ELSE IF o.fail # "none"
    THEN [result |-> Raise(o.exc), buffer |-> buffer, solver |-> 1, expm |-> None]
    ELSE [result |-> Ret(ApplyToColumns(expm(o.matp), ii.Y0)), buffer |-> buffer,
          solver |-> 1, expm |-> Some(o.matp)]

\* a faulty variant: the buffer is not consulted, every call above the threshold solves and buffers
run_disintegration_recompute(e0, ii, buffer, o) ==
    IF RLeq(e0, Emin)
    THEN [result |-> Ret(ii.Y0), buffer |-> buffer, solver |-> 0, expm |-> None]
    ELSE IF o.fail # "none"
    THEN [result |-> Raise(o.exc), buffer |-> buffer, solver |-> 1, expm |-> None]
    ELSE [result |-> Ret(ApplyToColumns(expm(o.matp), ii.Y0)), buffer |-> Some(o.matp),
          solver |-> 1, expm |-> Some(o.matp)]

\* a faulty variant: a buffered exponent is applied as it is, without the matrix exponential
run_disintegration_noexpm(e0, ii, buffer, o) ==
    IF RLeq(e0, Emin)
    THEN [result |-> Ret(ii.Y0), buffer |-> buffer, solver |-> 0, expm |-> None]
    ELSE IF buffer # None
    THEN [result |-> Ret(ApplyToColumns(buffer[1], ii.Y0)), buffer |-> buffer,
          solver |-> 0, expm |-> None]
    ELSE IF o.fail # "none"
    THEN [result |-> Raise(o.exc), buffer |-> buffer, solver |-> 1, expm |-> None]
    ELSE [result |-> Ret(ApplyToColumns(expm(o.matp), ii.Y0)), buffer |-> Some(o.matp),
          solver |-> 1, expm |-> Some(o.matp)]

\* a faulty variant: the buffer is assigned before the solver has finished
run_disintegration_earlybuffer(e0, ii, buffer, o) ==
    IF RLeq(e0, Emin)
    THEN [result |-> Ret(ii.Y0), buffer |-> buffer, solver |-> 0, expm |-> None]
    ELSE IF buffer # None
    THEN [result |-> Ret(ApplyToColumns(expm(buffer[1]), ii.Y0)), buffer |-> buffer,
          solver |-> 0, expm |-> Some(buffer[1])]
    ELSE IF o.fail # "none"
    THEN [result |-> Raise(o.exc), buffer |-> Some(o.matp), solver |-> 1, expm |-> None]
    ELSE [result |-> Ret(ApplyToColumns(expm(o.matp), ii.Y0)), buffer |-> Some(o.matp),
          solver |-> 1, expm |-> Some(o.matp)]

run_disintegration(e0, ii, buffer, o) ==
    IF RLeq(e0, Emin)
    THEN [result |-> Ret(ii.Y0), buffer |-> buffer, solver |-> 0, expm |-> None]
    ELSE IF buffer # None
    THEN [result |-> Ret(ApplyToColumns(expm(buffer[1]), ii.Y0)), buffer |-> buffer,
          solver |-> 0, expm |-> Some(buffer[1])]
    ELSE IF o.fail # "none"
    THEN [result |-> Raise(o.exc), buffer |-> buffer, solver |-> 1, expm |-> None]
    ELSE [result |-> Ret(ApplyToColumns(expm(o.matp), ii.Y0)), buffer |-> Some(o.matp),
          solver |-> 1, expm |-> Some(o.matp)]

\* set_matp_buffer(matp): the buffer afterwards
set_matp_buffer(buffer, matp) == matp

\* get_matp_buffer(): the value returned
get_matp_buffer(buffer) == buffer

(***************************************************************************)
(* The state machine: one constructor call, then calls on the instance.    *)
(***************************************************************************)
\* 268435456 = 2^28
MphiSet == {RInt(-2), RZero, me, RInt(2), RInt(3), Rat(511, 100), RInt(20), RInt(268435456)}

DecayArgs ==
    {[mphi |-> m, tau |-> t, temp0 |-> t0, n0a |-> n, bree |-> br[1], braa |-> br[2]] :
        m \in MphiSet, t \in TauSet, t0 \in Temp0Set, n \in {Rat(1, 2)},
        br \in {<<ROne, RZero>>, <<RZero, ROne>>}}

AnnihilationArgs ==
    {[mchi |-> m, a |-> ROne, b |-> b, tempkd |-> k, bree |-> ROne, braa |-> RZero] :
        m \in {RZero, RInt(10)}, b \in {RZero, ROne}, k \in TkdSet}

ArgsOf(c) == IF c = "DecayModel" THEN DecayArgs ELSE AnnihilationArgs

\* E0 - me2/(4*E0): the energy E with E/E0 = 1 - me2/(4*E0^2)
CutoffEnergy(e0) == RSub(e0, RDiv(me2, RMul(RInt(4), e0)))

\* the energies asked of an instance: a grid on its E0, with the cut-off
ESetOf(e0) ==
    IF e0 = RZero THEN {RZero, Rat(1, 2)}
    ELSE {RZero, RDiv(e0, RInt(2)), CutoffEnergy(e0),
          RDiv(RAdd(CutoffEnergy(e0), e0), RInt(2)), e0, RMul(RInt(2), e0)}

NoHist == [solver |-> 0, ok |-> 0, outs |-> {}]

\* the observer's record of a call: what it returned or raised, how often it
\* invoked the solver and what the solver raised, the argument it handed to
\* expm, and the buffer, the pending set_matp_buffer argument and the
\* history as they were before the call
NoCall ==
    [op |-> "none", result |-> Ret(None), solver |-> 0, raised |-> "none", expm |-> None,
     before |-> None, pending |-> <<>>, hist |-> NoHist]

self == [cls |-> cls, sII |-> sII, sE0 |-> sE0, a |-> attrs]

Init ==
    /\ phase = "none"
    /\ ctorExc = "none"
    /\ cls = "none"
    /\ args = <<>>
    /\ sII = <<>>
    /\ sE0 = RZero
    /\ sTrg = <<>>
    /\ sS0 = <<>>
    /\ sSc = <<>>
    /\ sMatpBuffer = None
    /\ attrs = <<>>
    /\ last = NoCall
    /\ pendingSet = <<>>
    /\ hist = NoHist
    /\ srcOut = <<>>

\* the constructor call c(g), the interface answering as ii
Construct(c, g, ii) ==
    /\ phase = "none"
    /\ LET obj == New(c, g, ii)
       IN  /\ cls' = c
           /\ args' = g
           /\ IF obj.exc = "none"
              THEN /\ phase' = "live"
                   /\ ctorExc' = "none"
                   /\ sII' = obj.self.sII
                   /\ sE0' = obj.self.sE0
                   /\ attrs' = obj.self.a
                   /\ sTrg' = obj.sTrg
                   /\ sS0' = obj.sS0
                   /\ sSc' = obj.sSc
                   /\ sMatpBuffer' = obj.sMatpBuffer
              ELSE /\ phase' = "raised"
                   /\ ctorExc' = obj.exc
                   /\ UNCHANGED <<sII, sE0, attrs, sTrg, sS0, sSc, sMatpBuffer>>
    /\ UNCHANGED <<last, pendingSet, hist, srcOut>>

RunDisintegration(o) ==
    /\ phase = "live"
    /\ hist.solver < MaxSolverCalls
    /\ LET r == run_disintegration(sE0, sII, sMatpBuffer, o)
       IN  /\ sMatpBuffer' = r.buffer
           /\ last' = [op |-> "run", result |-> r.result, solver |-> r.solver,
                       raised |-> IF r.solver > 0 THEN o.exc ELSE "none",
                       expm |-> r.expm, before |-> sMatpBuffer, pending |-> pendingSet,
                       hist |-> hist]
           /\ hist' = [solver |-> hist.solver + r.solver,
                       ok     |-> hist.ok + (IF r.solver = 1 /\ r.result.tag = "ret" THEN 1 ELSE 0),
                       outs   |-> IF r.result.tag = "ret"
                                  THEN hist.outs \cup {r.result.val} ELSE hist.outs]
    /\ pendingSet' = <<>>
    /\ UNCHANGED <<phase, ctorExc, cls, args, sII, sE0, sTrg, sS0, sSc, attrs, srcOut>>

SetMatpBuffer(matp) ==
    /\ phase = "live"
    /\ sMatpBuffer' = set_matp_buffer(sMatpBuffer, matp)
    /\ last' = [op |-> "set", result |-> Ret(None), solver |-> 0, raised |-> "none",
                expm |-> None, before |-> sMatpBuffer, pending |-> pendingSet,
                hist |-> hist]
    /\ pendingSet' = <<matp>>
    /\ hist' = NoHist
    /\ UNCHANGED <<phase, ctorExc, cls, args, sII, sE0, sTrg, sS0, sSc, attrs, srcOut>>

GetMatpBuffer ==
    /\ phase = "live"
    /\ last' = [op |-> "get", result |-> Ret(get_matp_buffer(sMatpBuffer)), solver |-> 0,
                raised |-> "none", expm |-> None, before |-> sMatpBuffer,
                pending |-> pendingSet, hist |-> hist]
    /\ UNCHANGED <<phase, ctorExc, cls, args, sII, sE0, sTrg, sS0, sSc, sMatpBuffer,
                   attrs, pendingSet, hist, srcOut>>

\* calling every entry of both source tables at (E, T)
EvalSources(E, T) ==
    /\ phase = "live"
    /\ srcOut' = [E |-> E, T |-> T,
                  S0 |-> [i \in 1..3 |-> CallS0(self, sS0[i], T)],
                  Sc |-> [i \in 1..3 |-> CallSc(self, sSc[i], E, T)]]
    /\ UNCHANGED <<phase, ctorExc, cls, args, sII, sE0, sTrg, sS0, sSc, sMatpBuffer,
                   attrs, last, pendingSet, hist>>

Constructs == \E c \in Classes : \E g \in ArgsOf(c) : \E ii \in Interfaces : Construct(c, g, ii)
Runs == \E o \in SolverOutcomes : RunDisintegration(o)
Sets == \E matp \in {None} \cup {Some(m) : m \in Matrices} : SetMatpBuffer(matp)
Evals == \E E \in ESetOf(sE0) : \E T \in TSet : EvalSources(E, T)

Next == Constructs \/ Runs \/ Sets \/ GetMatpBuffer

Spec == Init /\ [][Next]_vars

\* the source terms alone
NextSrc == Constructs \/ Evals

SpecSrc == Init /\ [][NextSrc]_vars

(***************************************************************************)
(* Properties.                                                             *)
(***************************************************************************)
Live == phase = "live"
Ran == Live /\ last.op = "run"
AboveThreshold == RLess(Emin, sE0)

\* expm(m) applied to the columns of Y0, written out for an exponent with
\* m * m = 0: Y0 + m * Y0
Propagated(m, Y0) ==
    [i \in Rows |-> [c \in Cols |-> Y0[i][c] + SumTo([j \in Rows |-> m[i][j] * Y0[j][c]], NumY)]]

\* C1: with E0 <= Emin every run_disintegration call, whatever the buffer
\* holds, returns exactly bbn_abundances(), invokes neither the solver
\* pipeline nor the matrix exponential, and leaves the buffer unchanged.
C1_SubThreshold ==
    (Ran /\ RLeq(sE0, Emin)) =>
        /\ last.result = Ret(sII.Y0)
        /\ last.solver = 0
        /\ last.expm = None
        /\ sMatpBuffer = last.before

\* C1 witness: a sub-threshold run on an instance whose buffer was set
C1_Witness == Ran /\ RLeq(sE0, Emin) /\ last.before # None /\ last.result.tag = "ret"

\* C2 (as claimed): in any sequence of run_disintegration calls without an
\* intervening set_matp_buffer the solver is invoked at most once, and the
\* calls yield identical output.
C2_Original == Live => (hist.solver <= 1 /\ Cardinality(hist.outs) <= 1)

\* C2 (amended): in any sequence of run_disintegration calls without an
\* intervening set_matp_buffer the solver completes at most once, all
\* outputs returned are identical, and a call made after one that returned
\* output does not invoke the solver; invocations that fail may repeat.
C2_Idempotent ==
    /\ Live => (hist.ok <= 1 /\ Cardinality(hist.outs) <= 1)
    /\ (Ran /\ last.hist.outs # {}) =>
          (last.solver = 0 /\ last.result.tag = "ret" /\ last.result.val \in last.hist.outs)

\* C2 witness: a second run after one that solved, above the threshold
C2_Witness ==
    Ran /\ AboveThreshold /\ last.hist.ok = 1 /\ last.hist.outs # {} /\ last.solver = 0

\* C3 (as claimed): once non-empty the buffer never becomes empty and is
\* never replaced by a different value, under run_disintegration,
\* set_matp_buffer and get_matp_buffer alike; it is empty at construction.
C3_Original ==
    /\ (Live /\ last.op = "none") => sMatpBuffer = None
    /\ (Live /\ last.op # "none" /\ last.before # None) => sMatpBuffer = last.before

\* C3 (amended): the buffer is empty at construction; run_disintegration and
\* get_matp_buffer never empty or replace a non-empty buffer (and
\* get_matp_buffer never changes it at all); set_matp_buffer(m) overwrites
\* the buffer with m, whatever it held and whatever m is.
C3_BufferLifecycle ==
    /\ (Live /\ last.op = "none") => sMatpBuffer = None
    /\ (Live /\ last.op \in {"run", "get"} /\ last.before # None) => sMatpBuffer = last.before
    /\ (Live /\ last.op = "get") => (sMatpBuffer = last.before /\ last.result = Ret(last.before))
    /\ (Live /\ last.op = "set") => sMatpBuffer = pendingSet[1]

\* C3 witness: a run above the threshold that found the buffer set
C3_Witness == Ran /\ AboveThreshold /\ last.before # None /\ sMatpBuffer = last.before

\* C4 (as claimed): after any set_matp_buffer(m) the next run_disintegration
\* bypasses the solver, applies the matrix exponential of m to the baseline
\* columns and leaves the buffer equal to m.
C4_Original ==
    (Ran /\ last.pending # <<>>) =>
        /\ last.solver = 0
        /\ sMatpBuffer = last.pending[1]
        /\ last.pending[1] # None
        /\ last.expm = last.pending[1]
        /\ last.result = Ret(Propagated(last.pending[1][1], sII.Y0))

\* C4 (amended): after set_matp_buffer(m) with m a matrix (not None) the next
\* run_disintegration bypasses the solver and leaves the buffer equal to m;
\* on a Scenario with E0 > Emin it applies the matrix exponential of m to
\* the baseline columns, with E0 <= Emin it returns the baseline unchanged.
C4_BufferTransfer ==
    (Ran /\ last.pending # <<>> /\ last.pending[1] # None) =>
        /\ last.solver = 0
        /\ sMatpBuffer = last.pending[1]
        /\ AboveThreshold =>
              /\ last.expm = last.pending[1]
              /\ last.result = Ret(Propagated(last.pending[1][1], sII.Y0))
        /\ ~AboveThreshold => (last.expm = None /\ last.result = Ret(sII.Y0))

\* C4 witness: a run above the threshold right after a matrix was set that changes the abundances
C4_Witness ==
    /\ Ran /\ AboveThreshold /\ last.pending # <<>> /\ last.pending[1] # None
    /\ last.result.tag = "ret" /\ last.result.val # sII.Y0

\* C5 (as claimed): no Scenario object with E0 <= 0 exists; the constructor
\* call raised a ConfigurationError instead.
C5_Claim == Live => RLess(RZero, sE0)

\* C6 (as claimed): both concrete classes supply every abstract method, so a
\* constructor call with valid parameters yields an instance with two
\* source tables of three entries, photon, electron, positron.
ValidArgs ==
    IF cls = "DecayModel"
    THEN RSgn(args.mphi) > 0 /\ RSgn(args.tau) > 0
    ELSE RSgn(args.mchi) > 0
C6_Claim ==
    (phase # "none" /\ ValidArgs /\ ctorExc # "ValueError") =>
        /\ Live
        /\ sS0 = <<"_source_photon_0", "_source_electron_0", "_source_positron_0">>
        /\ sSc = <<"_source_photon_c", "_source_electron_c", "_source_positron_c">>

\* C7: the temperature range of every Scenario satisfies 0 < Tmin < Tmax, is
\* (Td*10^(-1.5), Td*10^(+0.5)) for a DecayModel and
\* (Tmax*10^(-4), me2/(22*0.5*Emin)) for an AnnihilationModel, and no call
\* on the instance changes it.
AnnihilationRule == AnnihilationTemperatureRange(<<>>)
C7_TemperatureRange ==
    /\ Live =>
          /\ TPositive(sTrg[1]) /\ TPositive(sTrg[2]) /\ TLess(sTrg[1], sTrg[2])
          /\ cls = "DecayModel" =>
                LET Td == sII.temperature[attrs.sTau]
                IN  /\ sTrg[1] = Temp(Td.m, Td.q - 6)
                    /\ sTrg[2] = Temp(Td.m, Td.q + 2)
          /\ cls = "AnnihilationModel" => sTrg = AnnihilationRule.val
    /\ AnnihilationRule.tag = "ret"
    /\ AnnihilationRule.val[2] = Temp(Rat(261121, 16500000), 0)
    /\ AnnihilationRule.val[1] = Temp(Rat(261121, 16500000), -16)
    /\ TPositive(AnnihilationRule.val[1])
    /\ TLess(AnnihilationRule.val[1], AnnihilationRule.val[2])

\* C7 witness: an instance after a run that solved and a later set_matp_buffer
C7_Witness == Live /\ last.op = "set" /\ last.before # None /\ last.hist.ok = 1

\* C10: a solver failure during a run with E0 > Emin and an empty buffer
\* reaches the caller as raised, after one invocation, and leaves the buffer
\* empty; every run that finds the buffer empty invokes the solver, also
\* after a failure.
C10_SolverFailure ==
    /\ (Ran /\ last.result.tag = "raise") =>
          /\ last.result.exc = last.raised
          /\ last.solver = 1
          /\ last.before = None
          /\ sMatpBuffer = None
          /\ AboveThreshold
    /\ (Ran /\ AboveThreshold /\ last.before = None) => last.solver = 1

\* C10 witness: a run that invokes the solver after an earlier invocation failed
C10_Witness ==
    /\ Ran /\ last.hist.solver = 1 /\ last.hist.ok = 0 /\ last.solver = 1
    /\ last.before = None

(***************************************************************************)
(* The source terms (SpecSrc).  No AnnihilationModel instance exists (see  *)
(* C6), so its method bodies are also applied directly to the attributes   *)
(* AnnihilationModel.__init__ sets.                                        *)
(***************************************************************************)
Evaluated == Live /\ srcOut # <<>>

AnnihilationSelves ==
    {AnnihilationInit(g, ii).self :
        g \in {a \in AnnihilationArgs : RSgn(a.mchi) > 0}, ii \in Interfaces}

\* C8: for every concrete class the positron entries are AbstractModel's,
\* which call the electron entries: the third entry of each source table
\* evaluates to what the second does, and no concrete class defines the
\* positron sources itself.
C8_ClassLevel ==
    /\ \A c \in Classes :
          {"_source_positron_0", "_source_positron_c"} \cap ClassDefines(c) = {}
    /\ \A s \in AnnihilationSelves : \A T \in TSet : \A E \in ESetOf(s.sE0) :
          /\ CallS0(s, S0Table[3], T) = CallS0(s, S0Table[2], T)
          /\ CallSc(s, ScTable[3], E, T) = CallSc(s, ScTable[2], E, T)

C8_PositronMirror ==
    /\ Evaluated =>
          /\ srcOut.S0[3] = srcOut.S0[2]
          /\ srcOut.Sc[3] = srcOut.Sc[2]
          /\ sS0[3] = "_source_positron_0" /\ sS0[2] = "_source_electron_0"
          /\ sSc[3] = "_source_positron_c" /\ sSc[2] = "_source_electron_c"
    /\ C8_ClassLevel

\* C8 witness: an evaluation whose electron delta source is not zero
C8_Witness ==
    /\ Evaluated /\ srcOut.S0[2].tag = "ret" /\ srcOut.S0[2].val # ZeroVal
    /\ srcOut.S0[1] # srcOut.S0[2]

\* r is a returned value that is finite and not negative
FiniteNonNegative(r) ==
    /\ r.tag = "ret"
    /\ r.val # NoneVal
    /\ r.val = ZeroVal \/ (r.val.fx # RZero /\ RSgn(r.val.lg) > 0)
    /\ VSgn(r.val) >= 0

\* E/E0 > 1 - me2/(4*E0^2) for E0 > 0, without a rounded difference:
\* E >= E0, or (E0 - E) * 4 * E0 < me2
BeyondCutoff(e0, E) ==
    \/ RLeq(e0, E)
    \/ RLess(RMul(RSub(e0, E), RMul(RInt(4), e0)), me2)

PhotonCOk(e0, E, r) ==
    (RSgn(e0) > 0 /\ RSgn(E) > 0) =>
        IF BeyondCutoff(e0, E) THEN r = Ret(ZeroVal) ELSE FiniteNonNegative(r)

\* C9: with E0 > 0, Sc_photon(E, T) returns exactly 0, raising nothing, for
\* every E with E/E0 > 1 - me2/(4*E0^2), and a finite non-negative value for
\* every smaller E > 0 (branching ratio and number density not negative),
\* also at the boundary and when me2/(4*E0^2) >= 1.
C9_Claim == Evaluated => PhotonCOk(sE0, srcOut.E, srcOut.Sc[1])

====
